---------------------------- MODULE Spec2Model ----------------------------
(***************************************************************************)
(* FEY staking interface: the staking / unstaking orchestration core.      *)
(*                                                                         *)
(* The model follows the React components and hooks of the repository:     *)
(*   - useFeyBalances (balance / allowance snapshot, two reads),           *)
(*   - useFeyApproval / useFeyStaking / useFeyUnstaking (one transaction   *)
(*     tracker each: txState + the receipt watcher),                       *)
(*   - StakeFlow and UnstakeFlow (the step machines),                      *)
(*   - the formatting utilities used by the input handlers.                *)
(*                                                                         *)
(* Scheduling.  The program is single threaded.  One action of the model   *)
(* is one event-loop task (a click, a wallet answer, a receipt, a timer, a *)
(* poll result) together with the render it causes.  After the commit of a *)
(* render React runs the component's effects, and a promise continuation   *)
(* (the mutation's onMutate) runs after the handler that called            *)
(* writeContract and after that commit; both happen before the next task.  *)
(* The model keeps these as separate, visible steps but gives them         *)
(* priority: while an effect is runnable only effects run, then pending    *)
(* onMutate callbacks, then everything else (see Next).                    *)
(*                                                                         *)
(* Amounts are base-unit integers.  The token has 18 decimals in the       *)
(* source; TLC's integers are 32 bit, so the model scales the token to     *)
(* ModelDecimals decimals (Unit base units per token).                     *)
(***************************************************************************)
EXTENDS Integers, Sequences, FiniteSets, TLC

\* ------------------------------------------------------------------ bounds

\* Decimals of the token in the model (FEY_DECIMALS, XFEY_DECIMALS are 18).
ModelDecimals == 5
\* Largest whole-token balance the oracle reports.
MaxTokens == 2
\* Number of writeContract calls a user starts in one run (approve, deposit,
\* redeem); the auto-chained deposit is not counted against it.
MaxCalls == 2

RECURSIVE Pow10(_)
Pow10(n) == IF n = 0 THEN 1 ELSE 10 * Pow10(n - 1)

\* Base units per whole token: 10^decimals.
Unit == Pow10(ModelDecimals)

\* approve(amount || MAX_UINT256): the unbounded sentinel, at the model's width.
MAX_UINT256 == 2147483647

\* An absent number (undefined in the source).
Undefined == 0 - 1

\* ------------------------------------------------------------- text helpers
\* A text is a sequence of one-character strings.

DigitChars == <<"0", "1", "2", "3", "4", "5", "6", "7", "8", "9">>
IsDigit(c) == \E i \in 1..10 : DigitChars[i] = c
DigitVal(c) == (CHOOSE i \in 1..10 : DigitChars[i] = c) - 1

RECURSIVE ParseNat(_)
\* Value of a digit text; the empty text is 0.
ParseNat(s) ==
    IF s = <<>> THEN 0
    ELSE 10 * ParseNat(SubSeq(s, 1, Len(s) - 1)) + DigitVal(s[Len(s)])

RECURSIVE ToDigits(_)
\* Number.prototype.toString / BigInt.toString of a non-negative integer.
ToDigits(n) ==
    IF n < 10 THEN <<DigitChars[n + 1]>>
    ELSE Append(ToDigits(n \div 10), DigitChars[(n % 10) + 1])

RECURSIVE PadLeft(_, _)
PadLeft(s, n) == IF Len(s) >= n THEN s ELSE PadLeft(<<"0">> \o s, n)

RECURSIVE PadRight(_, _)
PadRight(s, n) == IF Len(s) >= n THEN s ELSE PadRight(Append(s, "0"), n)

RECURSIVE TrimZerosRight(_)
TrimZerosRight(s) ==
    IF s # <<>> /\ s[Len(s)] = "0" THEN TrimZerosRight(SubSeq(s, 1, Len(s) - 1))
    ELSE s

DotPositions(s) == {i \in 1..Len(s) : s[i] = "."}
MinOf(S) == CHOOSE x \in S : \A y \in S : x <= y
IntPart(s) ==
    IF DotPositions(s) = {} THEN s ELSE SubSeq(s, 1, MinOf(DotPositions(s)) - 1)
FracPart(s) ==
    IF DotPositions(s) = {} THEN <<>>
    ELSE SubSeq(s, MinOf(DotPositions(s)) + 1, Len(s))

\* The texts JavaScript's Number() reads as a number, among the texts made of
\* digits and dots: at most one dot and at least one digit.
IsDecimalText(s) ==
    /\ \A i \in 1..Len(s) : IsDigit(s[i]) \/ s[i] = "."
    /\ Cardinality(DotPositions(s)) <= 1
    /\ \E i \in 1..Len(s) : IsDigit(s[i])


\* ------------------------------------------------------ formatting utilities

RECURSIVE KeepChars(_, _)
\* The characters of s at the positions in keep, in order.
KeepChars(s, keep) ==
    IF s = <<>> THEN <<>>
    ELSE LET front == KeepChars(SubSeq(s, 1, Len(s) - 1), keep)
         IN  IF Len(s) \in keep THEN Append(front, s[Len(s)]) ELSE front

\* sanitizeNumberInput: drop every character but digits and the dot; when more
\* than one dot is left, keep the first and join the rest without dots.
sanitizeNumberInput(value) ==
    LET cleaned == SelectSeq(value, LAMBDA c : IsDigit(c) \/ c = ".")
        dots == DotPositions(cleaned)
    IN  IF Cardinality(dots) + 1 > 2
        THEN KeepChars(cleaned,
                 {i \in 1..Len(cleaned) : i \notin dots \/ i = MinOf(dots)})
        ELSE cleaned

\* isValidNumberInput: non-empty, matches /^\d*\.?\d*$/ and Number() reads it.
isValidNumberInput(value) ==
    /\ value # <<>>
    /\ \E i \in 1..Len(value) : value[i] # " "
    /\ \A i \in 1..Len(value) : IsDigit(value[i]) \/ value[i] = "."
    /\ Cardinality(DotPositions(value)) <= 1
    /\ IsDecimalText(value)

\* viem's parseUnits on a decimal text: the integer part scaled by 10^decimals
\* plus the fraction, padded to `decimals` digits or rounded half up when longer.
parseUnits(value, decimals) ==
    LET integer == ParseNat(IntPart(value))
        fraction == TrimZerosRight(FracPart(value))
    IN  IF Len(fraction) > decimals
        THEN LET kept == ParseNat(SubSeq(fraction, 1, decimals))
                 up == IF DigitVal(fraction[decimals + 1]) >= 5 THEN 1 ELSE 0
             IN  integer * Pow10(decimals) + kept + up
        ELSE integer * Pow10(decimals) + ParseNat(PadRight(fraction, decimals))

\* parseTokenAmount: 0 for an empty text, for a text Number() does not read and
\* when parseUnits throws; parseUnits otherwise.
parseTokenAmount(value) ==
    IF value = <<>> \/ ~IsDecimalText(value) THEN 0
    ELSE parseUnits(value, ModelDecimals)

RECURSIVE GroupThousands(_)
\* Intl.NumberFormat('en-US') grouping of an integer's digits.
GroupThousands(digits) ==
    IF Len(digits) <= 3 THEN digits
    ELSE GroupThousands(SubSeq(digits, 1, Len(digits) - 3))
             \o <<",">> \o SubSeq(digits, Len(digits) - 2, Len(digits))

\* Variant of formatTokenAmount: no text of its own for the very small amounts.
formatTokenAmountRounded(value, displayDecimals) ==
    IF value = 0 THEN <<"0", ".", "0", "0", "0", "0">>
    ELSE LET scaled ==
                 IF displayDecimals >= ModelDecimals
                 THEN value * Pow10(displayDecimals - ModelDecimals)
                 ELSE (value + (Pow10(ModelDecimals - displayDecimals) \div 2))
                          \div Pow10(ModelDecimals - displayDecimals)
             whole == scaled \div Pow10(displayDecimals)
             frac == scaled % Pow10(displayDecimals)
         IN  GroupThousands(ToDigits(whole))
                 \o (IF displayDecimals = 0 THEN <<>>
                     ELSE <<".">> \o PadLeft(ToDigits(frac), displayDecimals))

\* formatTokenAmount(value, decimals, displayDecimals) for value >= 0.
formatTokenAmount(value, displayDecimals) ==
    IF value = 0 THEN <<"0", ".", "0", "0", "0", "0">>
    ELSE IF value < Unit \div 10000
    THEN <<"<", " ", "0", ".", "0", "0", "0", "1">>
    ELSE LET scaled ==
                 IF displayDecimals >= ModelDecimals
                 THEN value * Pow10(displayDecimals - ModelDecimals)
                 ELSE (value + (Pow10(ModelDecimals - displayDecimals) \div 2))
                          \div Pow10(ModelDecimals - displayDecimals)
             whole == scaled \div Pow10(displayDecimals)
             frac == scaled % Pow10(displayDecimals)
         IN  GroupThousands(ToDigits(whole))
                 \o (IF displayDecimals = 0 THEN <<>>
                     ELSE <<".">> \o PadLeft(ToDigits(frac), displayDecimals))

\* formatFeyAmount / formatXFeyAmount: formatTokenAmount at the token's decimals.
formatFeyAmount(value, displayDecimals) == formatTokenAmount(value, displayDecimals)
formatXFeyAmount(value, displayDecimals) == formatTokenAmount(value, displayDecimals)

RECURSIVE LeadingDigits(_)
LeadingDigits(s) ==
    IF s # <<>> /\ IsDigit(s[1])
    THEN <<s[1]>> \o LeadingDigits(SubSeq(s, 2, Len(s)))
    ELSE <<>>

\* parseFloat reads a numeric prefix: NaN unless the text starts with a digit,
\* or with a dot followed by a digit.
ParseFloatIsNaN(s) ==
    ~ \/ (s # <<>> /\ IsDigit(s[1]))
      \/ (Len(s) >= 2 /\ s[1] = "." /\ IsDigit(s[2]))

\* Math.floor(parseFloat(text.replace(/,/g, ""))).toString(), or the text itself
\* when parseFloat gives NaN: the display text of the input handlers.
FlooredText(text) ==
    LET plain == SelectSeq(text, LAMBDA c : c # ",")
    IN  IF ParseFloatIsNaN(plain) THEN text
        ELSE ToDigits(ParseNat(LeadingDigits(plain)))

\* -------------------------------------------------------------------- state

VARIABLES
    address,              \* useAccount().address: TRUE while a wallet is connected
    data,                 \* useReadContracts result (phase 1), NoData before the first
    fvCache,              \* convertToAssets results (phase 2), by share amount read
    currentView,          \* App: "home" | "stake" | "unstake"
    stakeStep,            \* StakeFlow currentStep
    stakeAmount,          \* StakeFlow stakeAmount (input text)
    stakeAmountWei,       \* StakeFlow stakeAmountWei
    hasTriggeredStaking,  \* StakeFlow hasTriggeredStaking.current
    timers,               \* pending setTimeout callbacks of the auto-chain effect
    unstakeStep,          \* UnstakeFlow currentStep
    unstakeAmount,        \* UnstakeFlow unstakeAmount (input text)
    unstakeAmountWei,     \* UnstakeFlow unstakeAmountWei
    txState,              \* txState of useFeyApproval / useFeyStaking / useFeyUnstaking
    calls,                \* the writeContract calls of the mounted flow, with their progress;
                          \* a call's hash is its index
    attempt,              \* history: proceed / unstake clicks of the mounted flow that passed validation
    stakeTrail,           \* history: StakeFlow steps since the flow last was at input
    unstakeTrail,         \* history: UnstakeFlow steps since the flow last was at input
    proceedSnap,          \* history: what the last proceed / unstake click saw
    session               \* history of the mounted flow: approvals confirmed,
                          \* deposits the auto-chain submitted, last click refused

snapVars == <<address, data, fvCache>>
stakeVars == <<stakeStep, stakeAmount, stakeAmountWei, hasTriggeredStaking, timers>>
unstakeVars == <<unstakeStep, unstakeAmount, unstakeAmountWei>>
histVars == <<attempt, stakeTrail, unstakeTrail, proceedSnap, session>>
vars == <<address, data, fvCache, currentView, stakeStep, stakeAmount,
          stakeAmountWei, hasTriggeredStaking, timers, unstakeStep,
          unstakeAmount, unstakeAmountWei, txState, calls, attempt,
          stakeTrail, unstakeTrail, proceedSnap, session>>

Trackers == {"approval", "staking", "unstaking"}
StakeTrackers == {"approval", "staking"}

\* ---------------------------------------------------------- the read oracle

\* Balances the chain may hold at a read: nothing, dust below the display
\* threshold, whole tokens, and a balance that is not a whole number of tokens.
BalanceValues ==
    {0, 3, Unit + (Unit \div 2)} \cup {k * Unit : k \in 1..MaxTokens}
AllowanceValues == {0, Unit}
ShareValues == {0} \cup {k * Unit : k \in 1..MaxTokens}
\* The share balances of the input steps: also dust and a fraction of a token.
InputShares == ShareValues \cup {3, Unit + (Unit \div 2)}
\* Assets per share at a conversion read (the vault's share price).
SharePrices == {1, 2}

\* No result of the phase-1 read yet (data is undefined in the source).  Each
\* entry of a result is the value read, or Undefined when that read failed
\* ({status: "failure", result: undefined}); good is history: the value each
\* entry had at its last read that succeeded; fresh is history too: no deposit
\* or redeem has been confirmed since the result was read.
NoGood == [fey |-> Undefined, xfey |-> Undefined, allowance |-> Undefined]
NoData ==
    [known |-> FALSE, fey |-> 0, xfey |-> 0, allowance |-> 0, good |-> NoGood,
     fresh |-> TRUE]

\* entry.result as bigint || 0n
Result(r) == IF r = Undefined THEN 0 ELSE r
\* balances === null in the source.
NoBalances ==
    [known |-> FALSE, feyBalance |-> 0, xFeyBalance |-> 0, feyValue |-> 0,
     allowance |-> 0, isApproved |-> FALSE]

\* useFeyBalances, the feyValue read: its result for the current share balance,
\* Undefined while the read is disabled or has no result yet.
feyValue ==
    IF data.known /\ Result(data.xfey) # 0 THEN fvCache[data.xfey] ELSE Undefined

\* Variant of the balances memo: the address is not looked at.
balancesOfAnyone ==
    IF ~data.known THEN NoBalances
    ELSE [known |-> TRUE,
          feyBalance |-> Result(data.fey),
          xFeyBalance |-> Result(data.xfey),
          feyValue |-> IF feyValue = Undefined THEN 0 ELSE feyValue,
          allowance |-> Result(data.allowance),
          isApproved |-> Result(data.allowance) > 0]

\* useFeyBalances, the balances memo.
balances ==
    IF ~data.known \/ ~address THEN NoBalances
    ELSE [known |-> TRUE,
          feyBalance |-> Result(data.fey),
          xFeyBalance |-> Result(data.xfey),
          feyValue |-> IF feyValue = Undefined THEN 0 ELSE feyValue,
          allowance |-> Result(data.allowance),
          isApproved |-> Result(data.allowance) > 0]

\* -------------------------------------------------------------- the trackers

IdleTx ==
    [isLoading |-> FALSE, isPending |-> FALSE, isSuccess |-> FALSE,
     isError |-> FALSE, txHash |-> 0, error |-> ""]

\* The watcher (useWaitForTransactionReceipt) of a tracker: it is enabled while
\* txState holds a hash, loading until the receipt is in, successful after.
isConfirming(t) ==
    txState[t].txHash # 0 /\ calls[txState[t].txHash].status = "pending"
isConfirmed(t) ==
    txState[t].txHash # 0 /\ calls[txState[t].txHash].status = "confirmed"

\* What a hook returns: {...txState, isPending: txState.isPending || isConfirming}.
Hook(t) == [txState[t] EXCEPT !.isPending = txState[t].isPending \/ isConfirming(t)]

StakeMounted == address /\ currentView = "stake"
UnstakeMounted == address /\ currentView = "unstake"

\* History: nothing proceeded yet.
NoProceed == [amount |-> 0, needsApproval |-> FALSE, expected |-> 0]
\* History: nothing happened in the mounted flow yet.
\* failed: the trackers a submit error has failed with no user action since;
\* lost: the amount of the last submission of each tracker a submit error ended;
\* again: a watcher has reported a confirmation it had reported before.
NoSession ==
    [confirmed |-> 0, submitted |-> 0, refused |-> FALSE, failed |-> {},
     lost |-> [t \in Trackers |-> 0], again |-> FALSE]

\* History: the user has acted in the mounted flow.
UserActed == [session EXCEPT !.failed = {}]

\* ---------------------------------------------------------------------- Init

Init ==
    /\ address = FALSE
    /\ data = NoData
    /\ fvCache = [k \in (ShareValues \cup InputShares) \ {0} |-> Undefined]
    /\ currentView = "home"
    /\ stakeStep = "input"
    /\ stakeAmount = <<>>
    /\ stakeAmountWei = 0
    /\ hasTriggeredStaking = FALSE
    /\ timers = <<>>
    /\ unstakeStep = "input"
    /\ unstakeAmount = <<>>
    /\ unstakeAmountWei = 0
    /\ txState = [t \in Trackers |-> IdleTx]
    /\ calls = <<>>
    /\ attempt = 0
    /\ stakeTrail = <<"input">>
    /\ unstakeTrail = <<"input">>
    /\ proceedSnap = NoProceed
    /\ session = NoSession

\* ------------------------------------------------- wallet session and reads

\* Every flow component is unmounted: its state and its hooks' state are gone.
\* The callbacks of calls already made reach no hook any more, and the log of
\* calls starts again.  A timer still pending fires all the same and submits
\* its deposit through the unmounted hook: the model takes it to fire at the
\* unmount, where it reaches no component and is not logged.
ResetFlows ==
    /\ stakeStep' = "input"
    /\ stakeAmount' = <<>>
    /\ stakeAmountWei' = 0
    /\ hasTriggeredStaking' = FALSE
    /\ timers' = <<>>
    /\ unstakeStep' = "input"
    /\ unstakeAmount' = <<>>
    /\ unstakeAmountWei' = 0
    /\ txState' = [t \in Trackers |-> IdleTx]
    /\ calls' = <<>>
    /\ attempt' = 0
    /\ stakeTrail' = <<"input">>
    /\ unstakeTrail' = <<"input">>
    /\ proceedSnap' = NoProceed
    /\ session' = NoSession

\* A wallet connects: the same account as before (its cached reads are shown at
\* once) or another one (no read yet).
Connect ==
    /\ ~address
    /\ address' = TRUE
    /\ data' \in {data, NoData}
    /\ UNCHANGED <<fvCache, currentView, stakeVars, unstakeVars, txState, calls,
                   histVars>>

\* The wallet disconnects: App renders WalletConnect instead of the flows.
Disconnect ==
    /\ address
    /\ address' = FALSE
    /\ ResetFlows
    /\ UNCHANGED <<data, fvCache, currentView>>

\* The last good value of an entry after a read of it returned r.
Keep(last, r) == IF r = Undefined THEN last ELSE r

\* Variant of the poller's condition: it pauses while a tracker is loading or
\* has succeeded.
PollerRunsIdle ==
    /\ address
    /\ \A t \in Trackers : ~txState[t].isLoading /\ ~txState[t].isSuccess

\* The poller of phase 1 runs: enabled: !!address, refetchInterval: 5000.
PollerRuns == address

\* Phase 1: the three reads of useReadContracts return (first load or a poll),
\* each with a value or failed.
Phase1Read(f, x, a) ==
    /\ PollerRuns
    /\ data' = [known |-> TRUE, fey |-> f, xfey |-> x, allowance |-> a,
                good |-> [fey |-> Keep(data.good.fey, f),
                          xfey |-> Keep(data.good.xfey, x),
                          allowance |-> Keep(data.good.allowance, a)],
                fresh |-> TRUE]
    /\ UNCHANGED <<address, fvCache, currentView, stakeVars, unstakeVars,
                   txState, calls, histVars>>

\* Variant of the phase-2 read: it is issued whatever phase 1 holds, for any
\* share amount.
Phase2ReadAlways(price) ==
    /\ address
    /\ \E k \in DOMAIN fvCache : fvCache' = [fvCache EXCEPT ![k] = k * price]
    /\ UNCHANGED <<address, data, currentView, stakeVars, unstakeVars, txState,
                   calls, histVars>>

\* Phase 2: convertToAssets(shares) returns for the current share balance; the
\* read is enabled only while phase 1 holds a non-zero share balance.
Phase2Read(price) ==
    /\ address
    /\ data.known
    /\ Result(data.xfey) # 0
    /\ fvCache' = [fvCache EXCEPT ![data.xfey] = data.xfey * price]
    /\ UNCHANGED <<address, data, currentView, stakeVars, unstakeVars, txState,
                   calls, histVars>>

\* App: the STAKE FEY button of the home view.
OpenStake ==
    /\ address
    /\ currentView = "home"
    /\ balances.known
    /\ balances.feyBalance # 0
    /\ currentView' = "stake"
    /\ UNCHANGED <<snapVars, stakeVars, unstakeVars, txState, calls, histVars>>

\* App: the UNSTAKE xFEY button of the home view.
OpenUnstake ==
    /\ address
    /\ currentView = "home"
    /\ balances.known
    /\ balances.xFeyBalance # 0
    /\ currentView' = "unstake"
    /\ UNCHANGED <<snapVars, stakeVars, unstakeVars, txState, calls, histVars>>

\* onBack of either flow: App returns to the home view and unmounts the flow.
GoHome ==
    /\ currentView' = "home"
    /\ ResetFlows
    /\ UNCHANGED snapVars

\* -------------------------------------------- writeContract and its callbacks

\* What approve passes to the token: amount || MAX_UINT256.
ApproveArg(amount) == IF amount = 0 THEN MAX_UINT256 ELSE amount

\* A writeContract call: the mutation is created; its callbacks follow.
NewCall(t, amount, via, att) ==
    [t |-> t, amount |-> amount, via |-> via, att |-> att, status |-> "called"]

\* A call is over once the wallet refused it or its watcher ended.  The log
\* keeps the calls under way and those whose hash a tracker still holds; of the
\* others only that they were made.
Terminal == {"rejected", "confirmed", "reverted", "timeout"}
Compact(cs, tx) ==
    [i \in DOMAIN cs |->
        IF cs[i].status \in Terminal /\ tx[cs[i].t].txHash # i
        THEN [t |-> cs[i].t, amount |-> 0, via |-> cs[i].via,
              att |-> cs[i].att, status |-> "done"]
        ELSE cs[i]]

SetStatus(i, st) == [calls EXCEPT ![i].status = st]

\* onMutate: the tracker is reset to loading (the old hash and error are dropped).
OnMutate(i) ==
    /\ calls[i].status = "called"
    /\ txState' =
           [txState EXCEPT ![calls[i].t] =
                    [isLoading |-> TRUE, isPending |-> FALSE, isSuccess |-> FALSE,
                     isError |-> FALSE, txHash |-> 0, error |-> ""]]
    /\ calls' = Compact(SetStatus(i, "wallet"), txState')
    /\ UNCHANGED <<snapVars, currentView, stakeVars, unstakeVars, histVars>>

\* onSuccess(txHash): the wallet signed and sent the transaction.
OnSuccess(i) ==
    /\ calls[i].status = "wallet"
    /\ txState' =
           [txState EXCEPT ![calls[i].t].isPending = TRUE,
                                ![calls[i].t].txHash = i]
    /\ calls' = Compact(SetStatus(i, "pending"), txState')
    /\ UNCHANGED <<snapVars, currentView, stakeVars, unstakeVars, histVars>>

\* Variant of onError: the failure also sends the flows back to their input step.
OnErrorToInput(i) ==
    /\ calls[i].status = "wallet"
    /\ txState' =
           [txState EXCEPT ![calls[i].t] =
                    [isLoading |-> FALSE, isPending |-> FALSE, isSuccess |-> FALSE,
                     isError |-> TRUE, txHash |-> 0, error |-> "rejected"]]
    /\ calls' = Compact(SetStatus(i, "rejected"), txState')
    /\ session' = [session EXCEPT !.failed = @ \cup {calls[i].t},
                                  !.lost[calls[i].t] = calls[i].amount]
    /\ stakeStep' = "input"
    /\ unstakeStep' = "input"
    /\ UNCHANGED <<snapVars, currentView, stakeAmount, stakeAmountWei,
                   hasTriggeredStaking, timers, unstakeAmount, unstakeAmountWei,
                   attempt, stakeTrail, unstakeTrail, proceedSnap>>

\* onError(error): the wallet refused or the submission failed.
OnError(i) ==
    /\ calls[i].status = "wallet"
    /\ txState' =
           [txState EXCEPT ![calls[i].t] =
                    [isLoading |-> FALSE, isPending |-> FALSE, isSuccess |-> FALSE,
                     isError |-> TRUE, txHash |-> 0, error |-> "rejected"]]
    /\ calls' = Compact(SetStatus(i, "rejected"), txState')
    /\ session' = [session EXCEPT !.failed = @ \cup {calls[i].t},
                                  !.lost[calls[i].t] = calls[i].amount]
    /\ UNCHANGED <<snapVars, currentView, stakeVars, unstakeVars, attempt,
                   stakeTrail, unstakeTrail, proceedSnap>>

\* Variant of the hook's render: a confirmation seen again is reported as an
\* error of the tracker.
RenderTxOnce(s, confirmed) ==
    IF ~confirmed THEN s
    ELSE IF ~s.isSuccess
         THEN [s EXCEPT !.isLoading = FALSE, !.isPending = FALSE,
                        !.isSuccess = TRUE]
         ELSE [s EXCEPT !.isError = TRUE, !.error = "confirmed twice"]

\* The hook's render, given what the watcher reports:
\* if (isConfirmed && !txState.isSuccess) setTxState({...prev, isLoading: false,
\* isPending: false, isSuccess: true}).
RenderTx(s, confirmed) ==
    IF confirmed /\ ~s.isSuccess
    THEN [s EXCEPT !.isLoading = FALSE, !.isPending = FALSE, !.isSuccess = TRUE]
    ELSE s

\* The receipt arrives: the watcher of the tracker holding this hash reports
\* success, and the hook renders.
ReceiptConfirmed(i) ==
    /\ calls[i].status = "pending"
    /\ txState' =
           [txState EXCEPT ![calls[i].t] =
                    RenderTx(@, txState[calls[i].t].txHash = i)]
    /\ calls' = Compact(SetStatus(i, "confirmed"), txState')
    /\ session' =
           IF calls[i].t = "approval"
           THEN [session EXCEPT !.confirmed = @ + 1]
           ELSE session
    /\ data' =
           IF calls[i].t # "approval" /\ txState[calls[i].t].txHash = i
           THEN [data EXCEPT !.fresh = FALSE]
           ELSE data
    /\ UNCHANGED <<address, fvCache, currentView, stakeVars, unstakeVars,
                   attempt, stakeTrail, unstakeTrail, proceedSnap>>

\* The watcher of tracker t reports again the confirmation it has reported (a
\* refetch of the receipt, or any other render of the hook while isConfirmed):
\* the hook renders.
ConfirmedAgain(t) ==
    /\ isConfirmed(t)
    /\ txState' = [txState EXCEPT ![t] = RenderTx(@, isConfirmed(t))]
    /\ calls' = Compact(calls, txState')
    /\ session' = [session EXCEPT !.again = TRUE]
    /\ UNCHANGED <<snapVars, currentView, stakeVars, unstakeVars, attempt,
                   stakeTrail, unstakeTrail, proceedSnap>>

\* The watcher ends without a receipt of success (the transaction reverted or
\* the wait timed out).  The hooks read only isLoading and isSuccess of the
\* watcher, so txState is left as it was.
ReceiptFailed(i, how) ==
    /\ calls[i].status = "pending"
    /\ calls' = Compact(SetStatus(i, how), txState)
    /\ UNCHANGED <<txState, snapVars, currentView, stakeVars, unstakeVars,
                   histVars>>

\* ----------------------------------------------------------------- StakeFlow

\* The handlers pass 18 as displayDecimals: every decimal of the token.
FullDecimals == ModelDecimals

\* Texts a user types into an amount field.
TypedInputs ==
    { <<>>, <<"1">>, <<"1", ".", "7">>, <<"9">>, <<"x">>, <<".">> }
\* Slider positions, in tenths of a percent (step 0.1 between 0 and 100).
SliderTenths == {0, 333, 500, 1000}

\* What the user enters in the runs of the flows: nothing, one token, more than
\* any balance; the slider at its end.
FlowInputs == { <<>>, <<"1">>, <<"9">> }
FlowTenths == {1000}

\* floor(balance * pct / 100) with pct given in tenths, without overflow.
PercentOf(balance, tenths) ==
    (balance \div 1000) * tenths + ((balance % 1000) * tenths) \div 1000

\* A JavaScript number holds 53 significant bits, fewer than a balance of one
\* token of 10^18 base units has; 10^18 itself, a multiple of 2^18, is held
\* exactly.  The model's amounts being narrower, so is the significand of its
\* numbers: whole tokens are exact, most other amounts of a token or more are
\* not.
RECURSIVE BitLength(_)
BitLength(n) == IF n = 0 THEN 0 ELSE 1 + BitLength(n \div 2)

SignificandBits == BitLength(Unit) - 3

RECURSIVE Pow2(_)
Pow2(k) == IF k = 0 THEN 1 ELSE 2 * Pow2(k - 1)

\* Number(bigint): the nearest number, ties to the even significand.
ToNumber(n) ==
    IF BitLength(n) <= SignificandBits THEN n
    ELSE LET ulp == Pow2(BitLength(n) - SignificandBits)
             q == n \div ulp
             r == n % ulp
             up == 2 * r > ulp \/ (2 * r = ulp /\ q % 2 = 1)
         IN  (IF up THEN q + 1 ELSE q) * ulp

UserCalls == Cardinality({i \in DOMAIN calls : calls[i].via # "auto"})

\* Variant of needsApproval: an approval is asked for whatever the allowance.
needsApprovalAlways == balances.known

\* StakeFlow: needsApproval and isValidAmount of the current render.
needsApproval == balances.known /\ stakeAmountWei > balances.allowance
isValidAmount ==
    /\ stakeAmountWei > 0
    /\ balances.known
    /\ stakeAmountWei <= balances.feyBalance

\* Variant of StakeTypedAmount: the typed text is parsed without flooring.
StakeTypedAmountUnfloored(value) ==
    LET sanitized == sanitizeNumberInput(value)
        amount == parseTokenAmount(sanitized)
    IN  IF isValidNumberInput(sanitized) /\ sanitized # <<>>
             /\ ~ParseFloatIsNaN(sanitized)
        THEN IF balances.known /\ amount > balances.feyBalance
             THEN balances.feyBalance
             ELSE amount
        ELSE 0

\* renderInputStep: the balance shown above the amount field, formatted with
\* the default of 4 display decimals.
StakeBalanceText ==
    IF balances.known THEN formatFeyAmount(balances.feyBalance, 4)
    ELSE <<"0", ".", "0", "0", "0", "0">>

\* renderInputStep: the held amount in "Receive ~... xFEY", rendered while it
\* is above zero.
StakeReceiveText == formatFeyAmount(stakeAmountWei, 4)

\* renderInputStep: the validation message under the amount field, "" when
\* none is rendered.
StakeValidationMessage ==
    IF stakeAmount # <<>> /\ ~isValidAmount
    THEN IF stakeAmountWei = 0 THEN "Enter valid amount"
         ELSE IF stakeAmountWei >
                     (IF balances.known THEN balances.feyBalance ELSE 0)
         THEN "Insufficient balance"
         ELSE "Invalid amount"
    ELSE ""

\* Variant of StakeTypedAmount: a text that is not a number leaves the held
\* amount as it was.
StakeTypedAmountKept(value) ==
    LET sanitized == sanitizeNumberInput(value)
        amount == parseTokenAmount(FlooredText(sanitized))
    IN  IF isValidNumberInput(sanitized) /\ sanitized # <<>>
             /\ ~ParseFloatIsNaN(sanitized)
        THEN IF balances.known /\ amount > balances.feyBalance
             THEN balances.feyBalance
             ELSE amount
        ELSE stakeAmountWei

\* The held amount handleAmountChange computes from a typed text.
StakeTypedAmount(value) ==
    LET sanitized == sanitizeNumberInput(value)
        amount == parseTokenAmount(FlooredText(sanitized))
    IN  IF isValidNumberInput(sanitized) /\ sanitized # <<>>
             /\ ~ParseFloatIsNaN(sanitized)
        THEN IF balances.known /\ amount > balances.feyBalance
             THEN balances.feyBalance
             ELSE amount
        ELSE 0

\* The text handleAmountChange leaves in the input field.
StakeTypedText(value) ==
    LET sanitized == sanitizeNumberInput(value)
        flooredString == FlooredText(sanitized)
        amount == parseTokenAmount(flooredString)
        finalAmount == StakeTypedAmount(value)
    IN  IF isValidNumberInput(sanitized) /\ sanitized # <<>>
             /\ ~ParseFloatIsNaN(sanitized)
        THEN IF finalAmount # amount
             THEN FlooredText(formatFeyAmount(finalAmount, FullDecimals))
             ELSE flooredString
        ELSE sanitized

\* handleAmountChange: the input field of the input step.
HandleAmountChange(value) ==
    /\ StakeMounted
    /\ stakeStep = "input"
    /\ stakeAmount' = StakeTypedText(value)
    /\ stakeAmountWei' = StakeTypedAmount(value)
    /\ session' = UserActed
    /\ UNCHANGED <<snapVars, currentView, stakeStep, hasTriggeredStaking, timers,
                   unstakeVars, txState, calls, attempt, stakeTrail,
                   unstakeTrail, proceedSnap>>

\* handlePercentageChange: the slider, rendered while feyBalance > 0.  The
\* balance is converted to a number, and the product and the quotient are
\* numbers too; the model rounds the conversion only.
HandlePercentageChange(tenths) ==
    /\ StakeMounted
    /\ stakeStep = "input"
    /\ balances.known
    /\ balances.feyBalance # 0
    /\ LET balanceNum == ToNumber(balances.feyBalance)
           amountWei == PercentOf(balanceNum, tenths)
           flooredAmountWei ==
               IF amountWei > balances.feyBalance THEN balances.feyBalance
               ELSE amountWei
       IN  /\ stakeAmountWei' = flooredAmountWei
           /\ stakeAmount' = formatFeyAmount(flooredAmountWei, FullDecimals)
    /\ session' = UserActed
    /\ UNCHANGED <<snapVars, currentView, stakeStep, hasTriggeredStaking, timers,
                   unstakeVars, txState, calls, attempt, stakeTrail,
                   unstakeTrail, proceedSnap>>

\* handleMaxClick: the MAX button.
HandleMaxClick ==
    /\ StakeMounted
    /\ stakeStep = "input"
    /\ IF balances.known
       THEN /\ stakeAmountWei' = balances.feyBalance
            /\ stakeAmount' =
                   FlooredText(formatFeyAmount(balances.feyBalance, FullDecimals))
       ELSE UNCHANGED <<stakeAmountWei, stakeAmount>>
    /\ session' = UserActed
    /\ UNCHANGED <<snapVars, currentView, stakeStep, hasTriggeredStaking, timers,
                   unstakeVars, txState, calls, attempt, stakeTrail,
                   unstakeTrail, proceedSnap>>

\* Variant of ProceedStep: the deposit is submitted without an approval.
ProceedStepDirect == "deposit"

\* handleProceed: the step it goes to, and there the call it makes.
ProceedStep == IF needsApproval THEN "approve" ELSE "deposit"

\* handleProceed: the APPROVE & STAKE / STAKE FEY button.
\* An invalid amount returns before anything is set.
HandleProceed ==
    /\ StakeMounted
    /\ stakeStep = "input"
    /\ IF isValidAmount
       THEN /\ attempt' = attempt + 1
            /\ proceedSnap' =
                   [amount |-> stakeAmountWei,
                    needsApproval |-> stakeAmountWei > balances.allowance,
                    expected |-> 0]
            /\ session' = [UserActed EXCEPT !.refused = FALSE]
            /\ stakeStep' = ProceedStep
            /\ stakeTrail' = Append(stakeTrail, ProceedStep)
            /\ calls' = Append(calls,
                   IF ProceedStep = "approve"
                   THEN NewCall("approval", ApproveArg(stakeAmountWei),
                                "proceed", attempt + 1)
                   ELSE NewCall("staking", stakeAmountWei, "proceed",
                                attempt + 1))
       ELSE /\ session' = [UserActed EXCEPT !.refused = TRUE]
            /\ UNCHANGED <<stakeStep, stakeTrail, calls, attempt, proceedSnap>>
    /\ UNCHANGED <<snapVars, currentView, stakeAmount, stakeAmountWei,
                   hasTriggeredStaking, timers, unstakeVars, txState,
                   unstakeTrail>>

\* handleDeposit: TRY AGAIN of the deposit step, shown while staking.isError.
HandleDeposit ==
    /\ StakeMounted
    /\ stakeStep = "deposit"
    /\ Hook("staking").isError
    /\ calls' = Append(calls,
           NewCall("staking", stakeAmountWei, "retry", attempt))
    /\ session' = UserActed
    /\ UNCHANGED <<snapVars, currentView, stakeVars, unstakeVars, txState,
                   attempt, stakeTrail, unstakeTrail, proceedSnap>>

\* Variant of CHANGE AMOUNT: the button is shown whatever the tracker's state.
ChangeAmountAlways ==
    /\ StakeMounted
    /\ stakeStep = "deposit"
    /\ stakeStep' = "input"
    /\ stakeTrail' = <<"input">>
    /\ session' = UserActed
    /\ UNCHANGED <<snapVars, currentView, stakeAmount, stakeAmountWei,
                   hasTriggeredStaking, timers, unstakeVars, txState, calls,
                   attempt, unstakeTrail, proceedSnap>>

\* CHANGE AMOUNT of the deposit step, shown while staking.isError.
ChangeAmount ==
    /\ StakeMounted
    /\ stakeStep = "deposit"
    /\ Hook("staking").isError
    /\ stakeStep' = "input"
    /\ stakeTrail' = <<"input">>
    /\ session' = UserActed
    /\ UNCHANGED <<snapVars, currentView, stakeAmount, stakeAmountWei,
                   hasTriggeredStaking, timers, unstakeVars, txState, calls,
                   attempt, unstakeTrail, proceedSnap>>

\* TRY AGAIN of the approval step, shown while approval.isError.
ApprovalTryAgain ==
    /\ StakeMounted
    /\ stakeStep = "approve"
    /\ Hook("approval").isError
    /\ stakeStep' = "input"
    /\ stakeTrail' = <<"input">>
    /\ session' = UserActed
    /\ UNCHANGED <<snapVars, currentView, stakeAmount, stakeAmountWei,
                   hasTriggeredStaking, timers, unstakeVars, txState, calls,
                   attempt, unstakeTrail, proceedSnap>>

\* onBack: the arrow of the input step and CONTINUE STAKING of the success step.
StakeBack ==
    /\ StakeMounted
    /\ stakeStep \in {"input", "success"}
    /\ GoHome

\* The auto-chain effect: on approval success in the approve step, once per
\* visit, move to the deposit step and schedule staking.stake(stakeAmountWei).
AutoChainEnabled ==
    /\ StakeMounted
    /\ Hook("approval").isSuccess
    /\ stakeStep = "approve"
    /\ stakeAmountWei > 0
    /\ ~hasTriggeredStaking

\* Variant of ChainedAmount: the amount is read again from the input text,
\* against the snapshot of the render.
ChainedAmountReread == StakeTypedAmount(stakeAmount)

\* The amount the effect's closure passes to staking.stake.
ChainedAmount == stakeAmountWei

\* Variant of AutoChainEffect: the effect only moves to the deposit step (the
\* approval effect of the earlier revision of StakeFlow).
AutoChainStepOnly ==
    /\ AutoChainEnabled
    /\ hasTriggeredStaking' = TRUE
    /\ stakeStep' = "deposit"
    /\ stakeTrail' = Append(stakeTrail, "deposit")
    /\ UNCHANGED <<snapVars, currentView, stakeAmount, stakeAmountWei, timers,
                   unstakeVars, txState, calls, attempt, unstakeTrail,
                   proceedSnap, session>>

AutoChainEffect ==
    /\ AutoChainEnabled
    /\ hasTriggeredStaking' = TRUE
    /\ stakeStep' = "deposit"
    /\ stakeTrail' = Append(stakeTrail, "deposit")
    /\ timers' = Append(timers,
           [amount |-> ChainedAmount, att |-> attempt,
            captured |-> proceedSnap.amount])
    /\ UNCHANGED <<snapVars, currentView, stakeAmount, stakeAmountWei,
                   unstakeVars, txState, calls, attempt, unstakeTrail,
                   proceedSnap, session>>

\* The success effect: staking.isSuccess in the deposit step.
StakeSuccessEnabled ==
    /\ StakeMounted
    /\ Hook("staking").isSuccess
    /\ stakeStep = "deposit"

\* Variant of StakeSuccessEffect: the success step starts with the amount
\* cleared.
StakeSuccessEffectClears ==
    /\ StakeSuccessEnabled
    /\ stakeStep' = "success"
    /\ stakeTrail' = Append(stakeTrail, "success")
    /\ stakeAmount' = <<>>
    /\ stakeAmountWei' = 0
    /\ UNCHANGED <<snapVars, currentView, hasTriggeredStaking, timers,
                   unstakeVars, txState, calls, attempt, unstakeTrail,
                   proceedSnap, session>>

StakeSuccessEffect ==
    /\ StakeSuccessEnabled
    /\ stakeStep' = "success"
    /\ stakeTrail' = Append(stakeTrail, "success")
    /\ UNCHANGED <<snapVars, currentView, stakeAmount, stakeAmountWei,
                   hasTriggeredStaking, timers, unstakeVars, txState, calls,
                   attempt, unstakeTrail, proceedSnap, session>>

\* Variant of the reset effect's condition: the flag is also cleared at the
\* deposit step.
ResetEnabledAtDeposit ==
    /\ StakeMounted
    /\ stakeStep \in {"input", "deposit"}
    /\ hasTriggeredStaking

\* The reset effect: back at the input step the one-shot flag is cleared.
ResetEnabled ==
    /\ StakeMounted
    /\ stakeStep = "input"
    /\ hasTriggeredStaking

ResetEffect ==
    /\ ResetEnabled
    /\ hasTriggeredStaking' = FALSE
    /\ UNCHANGED <<snapVars, currentView, stakeStep, stakeAmount,
                   stakeAmountWei, timers, unstakeVars, txState, calls,
                   histVars>>

\* The auto-chain's setTimeout callback: staking.stake(amount) with the amount
\* and the hook of the render that scheduled it.  stake throws only without an
\* address, and the flows are rendered only while a wallet is connected: the
\* callback's catch handler, which would clear the one-shot flag, never runs.
TimerFires ==
    /\ timers # <<>>
    /\ timers' = Tail(timers)
    /\ calls' = Append(calls,
           NewCall("staking", Head(timers).amount, "auto", Head(timers).att))
    /\ session' = [session EXCEPT !.submitted = @ + 1]
    /\ UNCHANGED <<snapVars, currentView, stakeStep, stakeAmount,
                   stakeAmountWei, hasTriggeredStaking, unstakeVars, txState,
                   attempt, stakeTrail, unstakeTrail, proceedSnap>>

\* --------------------------------------------------------------- UnstakeFlow

RECURSIVE MulDivPair(_, _, _)
\* <<q, r>> with a * b = q * c + r and 0 <= r < c, by halving b, so that no
\* intermediate value leaves the model's integer width.
MulDivPair(a, b, c) ==
    IF b = 0 THEN <<0, 0>>
    ELSE LET h == MulDivPair(a, b \div 2, c)
             rest == 2 * h[2] + (b % 2) * a
         IN  <<2 * h[1] + rest \div c, rest % c>>

\* (a * b) / c on bigints: the floored quotient.
MulDiv(a, b, c) == MulDivPair(a, b, c)[1]

\* Variant of isValidAmount: the share balance is not looked at.
unstakeIsValidAmountAnyBalance == unstakeAmountWei > 0

\* UnstakeFlow: isValidAmount of the current render.
unstakeIsValidAmount ==
    /\ unstakeAmountWei > 0
    /\ balances.known
    /\ unstakeAmountWei <= balances.xFeyBalance

\* The division of expectedFeyAmount throws (RangeError: division by zero) in
\* the render: nothing catches it and React unmounts the application.
RenderThrows ==
    /\ UnstakeMounted
    /\ balances.known
    /\ unstakeAmountWei > 0
    /\ balances.xFeyBalance = 0

\* expectedFeyAmount of a render with snapshot b and held amount `amount`.
ExpectedFey(b, amount) ==
    IF b.known /\ amount > 0 /\ b.xFeyBalance # 0
    THEN MulDiv(b.feyValue, amount, b.xFeyBalance)
    ELSE 0

\* UnstakeFlow: expectedFeyAmount of the current render.
expectedFeyAmount == ExpectedFey(balances, unstakeAmountWei)

\* The validation message under the amount field of UnstakeFlow, "" when none
\* is rendered.
UnstakeValidationMessage ==
    IF unstakeAmount # <<>> /\ ~unstakeIsValidAmount
    THEN IF unstakeAmountWei = 0 THEN "Please enter a valid amount"
         ELSE IF unstakeAmountWei >
                     (IF balances.known THEN balances.xFeyBalance ELSE 0)
         THEN "Insufficient xFEY balance"
         ELSE "Invalid amount"
    ELSE ""

\* Variant of UnstakeTypedAmount: the typed text is parsed as it is, neither
\* floored nor clamped to the share balance.
UnstakeTypedAmountUnclamped(value) ==
    LET sanitized == sanitizeNumberInput(value)
    IN  IF isValidNumberInput(sanitized) /\ sanitized # <<>>
        THEN parseTokenAmount(sanitized)
        ELSE 0

\* The held amount handleAmountChange computes from a typed text.
UnstakeTypedAmount(value) ==
    LET sanitized == sanitizeNumberInput(value)
        amount == parseTokenAmount(FlooredText(sanitized))
    IN  IF isValidNumberInput(sanitized) /\ sanitized # <<>>
             /\ ~ParseFloatIsNaN(sanitized)
        THEN IF balances.known /\ amount > balances.xFeyBalance
             THEN balances.xFeyBalance
             ELSE amount
        ELSE 0

\* The text handleAmountChange leaves in the input field.
UnstakeTypedText(value) ==
    LET sanitized == sanitizeNumberInput(value)
        flooredString == FlooredText(sanitized)
        amount == parseTokenAmount(flooredString)
        finalAmount == UnstakeTypedAmount(value)
    IN  IF isValidNumberInput(sanitized) /\ sanitized # <<>>
             /\ ~ParseFloatIsNaN(sanitized)
        THEN IF finalAmount # amount
             THEN FlooredText(formatXFeyAmount(finalAmount, FullDecimals))
             ELSE flooredString
        ELSE sanitized

\* handleAmountChange of UnstakeFlow.
UnstakeAmountChange(value) ==
    /\ UnstakeMounted
    /\ unstakeStep = "input"
    /\ unstakeAmount' = UnstakeTypedText(value)
    /\ unstakeAmountWei' = UnstakeTypedAmount(value)
    /\ session' = UserActed
    /\ UNCHANGED <<snapVars, currentView, stakeVars, unstakeStep, txState, calls,
                   attempt, stakeTrail, unstakeTrail, proceedSnap>>

\* Variant of handleMaxClick: the balance goes through its text, as in the
\* earlier revision of UnstakeFlow (handleAmountChange(formatXFeyAmount(
\* balances.xFeyBalance, 18)), with neither floor nor clamp).
UnstakeMaxClickTyped ==
    /\ UnstakeMounted
    /\ unstakeStep = "input"
    /\ IF balances.known
       THEN LET maxAmount == formatXFeyAmount(balances.xFeyBalance, FullDecimals)
            IN  /\ unstakeAmountWei' = UnstakeTypedAmountUnclamped(maxAmount)
                /\ unstakeAmount' = sanitizeNumberInput(maxAmount)
       ELSE UNCHANGED <<unstakeAmountWei, unstakeAmount>>
    /\ session' = UserActed
    /\ UNCHANGED <<snapVars, currentView, stakeVars, unstakeStep, txState, calls,
                   attempt, stakeTrail, unstakeTrail, proceedSnap>>

\* handleMaxClick of UnstakeFlow.
UnstakeMaxClick ==
    /\ UnstakeMounted
    /\ unstakeStep = "input"
    /\ IF balances.known
       THEN /\ unstakeAmountWei' = balances.xFeyBalance
            /\ unstakeAmount' =
                   FlooredText(formatXFeyAmount(balances.xFeyBalance, FullDecimals))
       ELSE UNCHANGED <<unstakeAmountWei, unstakeAmount>>
    /\ session' = UserActed
    /\ UNCHANGED <<snapVars, currentView, stakeVars, unstakeStep, txState, calls,
                   attempt, stakeTrail, unstakeTrail, proceedSnap>>

\* handleUnstake: UNSTAKE xFEY of the input step, and TRY AGAIN of the
\* unstaking step (shown while unstaking.isError).  An invalid amount returns
\* before anything is set.
HandleUnstake ==
    /\ UnstakeMounted
    /\ \/ unstakeStep = "input"
       \/ unstakeStep = "unstaking" /\ Hook("unstaking").isError
    /\ IF unstakeIsValidAmount
       THEN /\ unstakeStep' = "unstaking"
            /\ unstakeTrail' =
                   IF unstakeStep = "unstaking" THEN unstakeTrail
                   ELSE Append(unstakeTrail, "unstaking")
            /\ attempt' = attempt + 1
            /\ proceedSnap' = [amount |-> unstakeAmountWei,
                               needsApproval |-> FALSE,
                               expected |-> expectedFeyAmount]
            /\ session' = [UserActed EXCEPT !.refused = FALSE]
            /\ calls' = Append(calls,
                   NewCall("unstaking", unstakeAmountWei,
                           IF unstakeStep = "input" THEN "proceed" ELSE "retry",
                           attempt + 1))
       ELSE /\ session' = [UserActed EXCEPT !.refused = TRUE]
            /\ UNCHANGED <<unstakeStep, unstakeTrail, calls, attempt,
                           proceedSnap>>
    /\ UNCHANGED <<snapVars, currentView, stakeVars, unstakeAmount,
                   unstakeAmountWei, txState, stakeTrail>>

\* CHANGE AMOUNT of the unstaking step, shown while unstaking.isError.
UnstakeChangeAmount ==
    /\ UnstakeMounted
    /\ unstakeStep = "unstaking"
    /\ Hook("unstaking").isError
    /\ unstakeStep' = "input"
    /\ unstakeTrail' = <<"input">>
    /\ session' = UserActed
    /\ UNCHANGED <<snapVars, currentView, stakeVars, unstakeAmount,
                   unstakeAmountWei, txState, calls, attempt, stakeTrail,
                   proceedSnap>>

\* UNSTAKE MORE of the success step.
UnstakeMore ==
    /\ UnstakeMounted
    /\ unstakeStep = "success"
    /\ unstakeStep' = "input"
    /\ unstakeAmount' = <<>>
    /\ unstakeAmountWei' = 0
    /\ unstakeTrail' = <<"input">>
    /\ session' = UserActed
    /\ UNCHANGED <<snapVars, currentView, stakeVars, txState, calls, attempt,
                   stakeTrail, proceedSnap>>

\* onBack: the arrow of the input step and BACK TO HOME of the success step.
UnstakeBack ==
    /\ UnstakeMounted
    /\ unstakeStep \in {"input", "success"}
    /\ GoHome

\* Variant of the success effect's condition: the step is not looked at.
UnstakeSuccessAnyStep ==
    /\ UnstakeMounted
    /\ Hook("unstaking").isSuccess
    /\ unstakeStep # "success"

\* The success effect: unstaking.isSuccess in the unstaking step.
UnstakeSuccessEnabled ==
    /\ UnstakeMounted
    /\ Hook("unstaking").isSuccess
    /\ unstakeStep = "unstaking"

UnstakeSuccessEffect ==
    /\ UnstakeSuccessEnabled
    /\ unstakeStep' = "success"
    /\ unstakeTrail' = Append(unstakeTrail, "success")
    /\ UNCHANGED <<snapVars, currentView, stakeVars, unstakeAmount,
                   unstakeAmountWei, txState, calls, attempt, stakeTrail,
                   proceedSnap, session>>

\* ------------------------------------------------------------ specification

StakeEffectRunnable == AutoChainEnabled \/ StakeSuccessEnabled \/ ResetEnabled
EffectRunnable == StakeEffectRunnable \/ UnstakeSuccessEnabled

MicrotaskPending == \E i \in DOMAIN calls : calls[i].status = "called"

\* Effects of the last commit of StakeFlow.
StakeEffects ==
    \/ AutoChainEffect
    \/ StakeSuccessEffect
    \/ ResetEffect

\* Promise continuations: the onMutate of each call just made, in call order.
Microtasks ==
    \E i \in DOMAIN calls :
        /\ \A j \in DOMAIN calls : calls[j].status = "called" => i <= j
        /\ OnMutate(i)

\* Event-loop tasks.  The wallet session:
SessionTasks ==
    \/ Connect
    \/ Disconnect

\* The wallet's and the watcher's answers to the calls made:
ChainTasks ==
    \/ \E i \in DOMAIN calls : OnSuccess(i)
    \/ \E i \in DOMAIN calls : OnError(i)
    \/ \E i \in DOMAIN calls : ReceiptConfirmed(i)
    \/ \E t \in Trackers : ConfirmedAgain(t)
    \/ \E i \in DOMAIN calls, how \in {"reverted", "timeout"} :
           ReceiptFailed(i, how)

\* The user in the stake view, and the auto-chain's timer:
StakeTasks ==
    \/ OpenStake
    \/ \E value \in FlowInputs : HandleAmountChange(value)
    \/ \E tenths \in FlowTenths : HandlePercentageChange(tenths)
    \/ HandleMaxClick
    \/ (isValidAmount => UserCalls < MaxCalls) /\ HandleProceed
    \/ UserCalls < MaxCalls /\ HandleDeposit
    \/ ChangeAmount
    \/ ApprovalTryAgain
    \/ StakeBack
    \/ TimerFires

\* The user in the unstake view:
UnstakeTasks ==
    \/ OpenUnstake
    \/ \E value \in FlowInputs : UnstakeAmountChange(value)
    \/ UnstakeMaxClick
    \/ (unstakeIsValidAmount => UserCalls < MaxCalls) /\ HandleUnstake
    \/ UnstakeChangeAmount
    \/ UnstakeMore
    \/ UnstakeBack

\* The balance poller, reading any state of the chain:
ReadTasks ==
    \/ \E f \in BalanceValues, x \in ShareValues, a \in AllowanceValues :
           Phase1Read(f, x, a)
    \/ \E price \in SharePrices : Phase2Read(price)

\* The whole application.
Next ==
    /\ ~RenderThrows
    /\ \/ StakeEffects
       \/ UnstakeSuccessEffect
       \/ ~EffectRunnable /\ Microtasks
       \/ ~EffectRunnable /\ ~MicrotaskPending
              /\ (SessionTasks \/ ReadTasks \/ StakeTasks \/ UnstakeTasks
                      \/ ChainTasks)

Spec == Init /\ [][Next]_vars

\* The stake view alone: the account holds whole tokens and no shares, so that
\* the poller's reads vary the token balance and the allowance only.
StakeReads ==
    \E f \in ShareValues, a \in AllowanceValues : Phase1Read(f, 0, a)

StakeNext ==
    \/ StakeEffects
    \/ ~StakeEffectRunnable /\ Microtasks
    \/ ~StakeEffectRunnable /\ ~MicrotaskPending
           /\ (SessionTasks \/ StakeReads \/ StakeTasks \/ ChainTasks)

StakeSpec == Init /\ [][StakeNext]_vars

\* The unstake view alone: the account holds shares and no tokens.
UnstakeReads ==
    \/ \E x \in ShareValues : Phase1Read(0, x, 0)
    \/ \E price \in SharePrices : Phase2Read(price)

UnstakeNext ==
    /\ ~RenderThrows
    /\ \/ UnstakeSuccessEffect
       \/ ~UnstakeSuccessEnabled /\ Microtasks
       \/ ~UnstakeSuccessEnabled /\ ~MicrotaskPending
              /\ (SessionTasks \/ UnstakeReads \/ UnstakeTasks \/ ChainTasks)

UnstakeSpec == Init /\ [][UnstakeNext]_vars

\* The stake view under the scheduling React and the event loop guarantee: the
\* effects of a commit run, and a timer that was set fires.
StakeFairSpec ==
    /\ StakeSpec
    /\ WF_vars(StakeEffects)
    /\ WF_vars(TimerFires)

\* The stake view with the poller's timer and the oracle's answers guaranteed,
\* next to the effects, the continuations and the auto-chain's timer.  The
\* poller's task waits in the queue while effects and continuations run, and
\* is run when the event loop comes back to its tasks: strong fairness.
StakePolls == ~StakeEffectRunnable /\ ~MicrotaskPending /\ StakeReads

StakePollSpec ==
    /\ StakeFairSpec
    /\ WF_vars(~StakeEffectRunnable /\ Microtasks)
    /\ SF_vars(StakePolls)

\* The same for the unstake view.
UnstakePolls ==
    /\ ~RenderThrows
    /\ ~UnstakeSuccessEnabled
    /\ ~MicrotaskPending
    /\ \E x \in ShareValues : Phase1Read(0, x, 0)

UnstakePollSpec ==
    /\ UnstakeSpec
    /\ WF_vars(~RenderThrows /\ UnstakeSuccessEffect)
    /\ WF_vars(~RenderThrows /\ ~UnstakeSuccessEnabled /\ Microtasks)
    /\ SF_vars(UnstakePolls)

\* The input steps of the two views: the account holds any balance, dust
\* and fractions of a token included, and an allowance for all of it; the user
\* types, drags the slider, clicks MAX and submits one call, whose
\* continuation runs.
InputBalances ==
    BalanceValues \cup {(Unit \div 10000) - 1, Unit \div 10000, Unit + 3}

InputReads ==
    \E f \in InputBalances, x \in InputShares : Phase1Read(f, x, MAX_UINT256)

InputTasks ==
    \/ OpenStake
    \/ \E value \in TypedInputs : HandleAmountChange(value)
    \/ \E tenths \in SliderTenths : HandlePercentageChange(tenths)
    \/ HandleMaxClick
    \/ (isValidAmount => UserCalls < 1) /\ HandleProceed
    \/ StakeBack
    \/ OpenUnstake
    \/ \E value \in TypedInputs : UnstakeAmountChange(value)
    \/ UnstakeMaxClick
    \/ (unstakeIsValidAmount => UserCalls < 1) /\ HandleUnstake
    \/ UnstakeBack

InputNext ==
    /\ ~RenderThrows
    /\ \/ Microtasks
       \/ ~MicrotaskPending /\ (SessionTasks \/ InputReads \/ InputTasks)

InputSpec == Init /\ [][InputNext]_vars

\* Longer sessions of the stake view: the user may submit one call more.  The
\* account holds MaxTokens tokens all along, the wallet stays connected and the
\* user enters one token or the whole balance.
StakeLongReads ==
    \E a \in AllowanceValues : Phase1Read(MaxTokens * Unit, 0, a)

StakeLongTasks ==
    \/ OpenStake
    \/ HandleAmountChange(<<"1">>)
    \/ HandleMaxClick
    \/ (isValidAmount => UserCalls < MaxCalls + 1) /\ HandleProceed
    \/ UserCalls < MaxCalls + 1 /\ HandleDeposit
    \/ ChangeAmount
    \/ ApprovalTryAgain
    \/ TimerFires

StakeLongNext ==
    \/ StakeEffects
    \/ ~StakeEffectRunnable /\ Microtasks
    \/ ~StakeEffectRunnable /\ ~MicrotaskPending
           /\ (Connect \/ StakeLongReads \/ StakeLongTasks \/ ChainTasks)

StakeLongSpec == Init /\ [][StakeLongNext]_vars

\* The balance poller alone, on the home view: every read of phase 1 returns a
\* value or fails, one entry or all of them.
OracleReads ==
    \/ \E f \in BalanceValues \cup {Undefined},
          x \in ShareValues \cup {Undefined},
          a \in AllowanceValues \cup {Undefined} : Phase1Read(f, x, a)
    \/ \E price \in SharePrices : Phase2Read(price)

OracleNext == SessionTasks \/ OracleReads

OracleSpec == Init /\ [][OracleNext]_vars

\* ------------------------------------------------------------------ properties

IsPrefix(s, t) == Len(s) <= Len(t) /\ \A i \in 1..Len(s) : s[i] = t[i]

\* The newest entry of the log is a call the step just made.
Submitted(t) ==
    /\ Len(calls') = Len(calls) + 1
    /\ calls'[Len(calls')].t = t

\* C1: stake flow, approval path.  When the proceed click found the held amount
\* above the allowance, the steps observed since Input are a prefix of
\* Input -> Approving -> Executing -> Success, the step shown is the last of
\* them, and at Success they are exactly that sequence.
C1_ApprovalPathSteps ==
    (StakeMounted /\ attempt > 0 /\ proceedSnap.needsApproval) =>
        /\ IsPrefix(stakeTrail, <<"input", "approve", "deposit", "success">>)
        /\ stakeStep = stakeTrail[Len(stakeTrail)]
        /\ stakeStep = "success" =>
               stakeTrail = <<"input", "approve", "deposit", "success">>

\* C1, the case: Success reached through an approval and a deposit that were
\* both confirmed.
C1_ApprovalPathReached ==
    /\ StakeMounted
    /\ stakeStep = "success"
    /\ proceedSnap.needsApproval
    /\ session.confirmed > 0
    /\ isConfirmed("staking")

\* C2: stake flow, no-approval path.  When the proceed click found the
\* allowance covering the held amount, the steps observed since Input are a
\* prefix of Input -> Executing -> Success (exactly that at Success) and the
\* log holds no approve call of that attempt.
C2_DirectPathSteps ==
    (StakeMounted /\ attempt > 0 /\ ~proceedSnap.needsApproval) =>
        /\ IsPrefix(stakeTrail, <<"input", "deposit", "success">>)
        /\ stakeStep = stakeTrail[Len(stakeTrail)]
        /\ stakeStep = "success" => stakeTrail = <<"input", "deposit", "success">>
        /\ \A i \in DOMAIN calls :
               ~(calls[i].t = "approval" /\ calls[i].att = attempt)

\* C2, the case: Success reached by a confirmed deposit without approval.
C2_DirectPathReached ==
    /\ StakeMounted
    /\ stakeStep = "success"
    /\ ~proceedSnap.needsApproval
    /\ isConfirmed("staking")
    /\ calls[txState["staking"].txHash].via = "proceed"

\* C3: the auto-chain submits at most one deposit per approval confirmation:
\* the deposits it has submitted never outnumber the approvals confirmed.
C3_OneDepositPerConfirmation == session.submitted <= session.confirmed

\* C4: the deposit the auto-chain submits carries the amount held at the
\* proceed click of its attempt, which is the amount of that attempt's approve
\* call; so does every deposit it has scheduled.
C4_ChainedDepositKeepsAmount ==
    /\ [](\A k \in DOMAIN timers : timers[k].amount = timers[k].captured)
    /\ [](\A i \in DOMAIN calls :
              (calls[i].t = "approval" /\ calls[i].status # "done"
                   /\ calls[i].att = attempt)
                  => calls[i].amount = proceedSnap.amount)
    /\ [][(timers # <<>> /\ Submitted("staking")
               /\ calls'[Len(calls')].via = "auto")
              => calls'[Len(calls')].amount = Head(timers).captured]_vars

\* C4, the case: an auto-chained deposit under way with the amount of the
\* proceed click, after a refresh brought the balance below that amount.
C4_ChainedAfterRefresh ==
    /\ StakeMounted
    /\ balances.known
    /\ \E i \in DOMAIN calls :
           /\ calls[i].via = "auto"
           /\ calls[i].status = "wallet"
           /\ calls[i].att = attempt
           /\ calls[i].amount = proceedSnap.amount
           /\ calls[i].amount > balances.feyBalance

\* The approval tracker shows success while the step is Approving.
ApprovedWhileApproving ==
    /\ StakeMounted
    /\ stakeStep = "approve"
    /\ Hook("approval").isSuccess

C6_SubmitWithinSnapshot ==
    \A i \in DOMAIN calls :
        calls[i].status = "called" =>
            /\ calls[i].t = "staking" =>
                   /\ calls[i].amount > 0
                   /\ balances.known
                   /\ calls[i].amount <= balances.feyBalance
            /\ calls[i].t = "unstaking" =>
                   /\ balances.known
                   /\ calls[i].amount <= balances.xFeyBalance

\* C7: while the held amount is 0, above the snapshot's xFeyBalance, or the
\* snapshot is unknown, no step submits a redeem and the Input step stays.
C7_InvalidUnstakeRefused ==
    [][(/\ UnstakeMounted
        /\ \/ unstakeAmountWei = 0
           \/ ~balances.known
           \/ unstakeAmountWei > balances.xFeyBalance)
           => /\ ~Submitted("unstaking")
              /\ unstakeStep = "input" => unstakeStep' = "input"]_vars

\* C7, the case: a click on UNSTAKE with an amount above the share balance, or
\* with no snapshot, was refused in the Input step.
C7_RefusedClick ==
    /\ UnstakeMounted
    /\ session.refused
    /\ unstakeStep = "input"
    /\ unstakeAmountWei > 0
    /\ ~balances.known \/ unstakeAmountWei > balances.xFeyBalance
    /\ calls = <<>>

\* C8: unstake flow.  The steps observed since Input are a prefix of
\* Input -> Executing -> Success, the step shown is the last of them.
C8_UnstakePathSteps ==
    UnstakeMounted =>
        /\ IsPrefix(unstakeTrail, <<"input", "unstaking", "success">>)
        /\ unstakeStep = unstakeTrail[Len(unstakeTrail)]

\* C8, the case: Success reached by the confirmed redeem of the attempt.
C8_UnstakeSuccessReached ==
    /\ UnstakeMounted
    /\ unstakeStep = "success"
    /\ unstakeTrail = <<"input", "unstaking", "success">>
    /\ isConfirmed("unstaking")
    /\ calls[txState["unstaking"].txHash].att = attempt

\* C9: in Executing and Success the FEY amount shown equals the amount computed
\* on the snapshot that was current when the redeem was submitted.
C9_ReportedAmountFixed ==
    (UnstakeMounted /\ unstakeStep \in {"unstaking", "success"}) =>
        expectedFeyAmount = proceedSnap.expected

\* C10: when the watcher of the transaction a tracker holds has reported a
\* revert or a timeout, the tracker is failed: isError, an error message, not
\* loading, not pending.
C10_WatcherFailureFailsTracker ==
    \A t \in Trackers :
        (/\ txState[t].txHash # 0
         /\ calls[txState[t].txHash].status \in {"reverted", "timeout"})
            => /\ Hook(t).isError
               /\ Hook(t).error # ""
               /\ ~Hook(t).isLoading
               /\ ~Hook(t).isPending

\* The step is the wallet's refusal of call i: the call was at the wallet and
\* is over without a hash.
Rejected(i) ==
    /\ i \in DOMAIN calls'
    /\ calls[i].status = "wallet"
    /\ calls'[i].status \in {"rejected", "done"}

\* C11: when the wallet refuses a submission, the tracker of the call is failed
\* (isError, the error's message, not loading, not pending, no hash) and the
\* steps of both flows stay where they were; a mounted stake flow leaves
\* Approving or Executing for Input only by TRY AGAIN or CHANGE AMOUNT.
C11_RejectionFailsInPlace ==
    /\ [][\A i \in DOMAIN calls :
              Rejected(i) =>
                  /\ txState'[calls[i].t].isError
                  /\ txState'[calls[i].t].error # ""
                  /\ ~txState'[calls[i].t].isLoading
                  /\ ~txState'[calls[i].t].isPending
                  /\ txState'[calls[i].t].txHash = 0
                  /\ stakeStep' = stakeStep
                  /\ unstakeStep' = unstakeStep]_vars
    /\ [][(/\ StakeMounted
            /\ stakeStep \in {"approve", "deposit"}
            /\ address'
            /\ stakeStep' = "input")
               => (ChangeAmount \/ ApprovalTryAgain)]_vars
    /\ [][(/\ UnstakeMounted
            /\ unstakeStep = "unstaking"
            /\ address'
            /\ unstakeStep' = "input")
               => UnstakeChangeAmount]_vars

\* C11, the case: the wallet refused the deposit in the Executing step; the
\* staking tracker is failed with the message and the step is still Executing.
C11_RejectedInExecuting ==
    /\ StakeMounted
    /\ stakeStep = "deposit"
    /\ txState["staking"].isError
    /\ txState["staking"].error = "rejected"
    /\ \E i \in DOMAIN calls : calls[i].t = "staking" /\ calls[i].status = "done"

\* The submission or the confirmation of the transaction tracker t drives has
\* failed: the wallet refused it, or its watcher ended in a revert or a timeout.
HasFailed(t) ==
    \/ txState[t].isError
    \/ /\ txState[t].txHash # 0
       /\ calls[txState[t].txHash].status \in {"reverted", "timeout"}

\* C12: whenever the tracker driving the Approving or Executing step has failed,
\* that step shows a button that resubmits or returns to Input (the buttons are
\* rendered while the tracker's isError is set).
C12_FailureLeavesAction ==
    /\ (StakeMounted /\ stakeStep = "approve" /\ HasFailed("approval"))
           => Hook("approval").isError
    /\ (StakeMounted /\ stakeStep = "deposit" /\ HasFailed("staking"))
           => Hook("staking").isError
    /\ (UnstakeMounted /\ unstakeStep = "unstaking" /\ HasFailed("unstaking"))
           => Hook("unstaking").isError

\* C13: while a submit error has failed a tracker and the user has not acted
\* since, no step submits on that tracker but a user's own click: the
\* auto-chain's timer submits no deposit then.
C13_NoSubmitAfterSubmitError ==
    [][\A t \in Trackers :
           (Submitted(t) /\ t \in session.failed)
               => calls'[Len(calls')].via # "auto"]_vars

\* C14: the deposit TRY AGAIN submits in the stake flow's Executing step, and
\* the redeem TRY AGAIN submits in the unstake flow's, carry the amount of the
\* tracker's last submission that failed.
C14_RetryKeepsAmount ==
    [][\A t \in {"staking", "unstaking"} :
           (Submitted(t) /\ calls'[Len(calls')].via = "retry")
               => calls'[Len(calls')].amount = session.lost[t]]_vars

\* C15: on a tracker that is Confirmed, the confirmation reported again leaves
\* the tracker's state (flags, hash, error) as it is: the render changes
\* nothing, and the step that reports it changes no tracker.
C15_ConfirmationIdempotent ==
    /\ [](\A t \in Trackers :
              isConfirmed(t) =>
                  /\ txState[t].isSuccess
                  /\ RenderTx(txState[t], TRUE) = txState[t])
    /\ [][\A t \in Trackers : ConfirmedAgain(t) => txState' = txState]_vars

\* C15, the case: the watcher of the Confirmed staking tracker has reported its
\* confirmation again, and the tracker is as the first report left it.
C15_ReportedAgain ==
    /\ StakeMounted
    /\ session.again
    /\ isConfirmed("staking")
    /\ txState["staking"] =
           [isLoading |-> FALSE, isPending |-> FALSE, isSuccess |-> TRUE,
            isError |-> FALSE, txHash |-> txState["staking"].txHash,
            error |-> ""]

\* The lifecycle state a tracker's flags stand for.
Lifecycle(t) ==
    IF txState[t].isSuccess THEN "Confirmed"
    ELSE IF txState[t].isError THEN "Failed"
    ELSE IF txState[t].txHash # 0 THEN "AwaitingConfirmation"
    ELSE IF txState[t].isLoading THEN "Submitting"
    ELSE "Idle"

\* The flow components, and with them the hooks, live through the step.
StaysMounted == address /\ address' /\ currentView' = currentView

\* C16: a tracker that is Confirmed is Confirmed after every step that leaves
\* its flow mounted: no new submit, submit result or submit error moves it.
C16_ConfirmedIsTerminal ==
    [][\A t \in Trackers :
           (Lifecycle(t) = "Confirmed" /\ StaysMounted)
               => Lifecycle(t)' = "Confirmed"]_vars

\* A transaction of tracker t is in flight: the tracker is Submitting or
\* AwaitingConfirmation and a call of it is with the wallet or awaits its
\* receipt.
InFlight(t) ==
    /\ Lifecycle(t) \in {"Submitting", "AwaitingConfirmation"}
    /\ \E i \in DOMAIN calls :
           calls[i].t = t /\ calls[i].status \in {"wallet", "pending"}

\* C17: no step submits on a tracker that has a transaction in flight.
C17_OneInFlight ==
    [][\A t \in Trackers : Submitted(t) => ~InFlight(t)]_vars

\* Tracker t drives the step shown: approval the Approving step, staking the
\* Executing step of the stake flow, unstaking that of the unstake flow.
Driving(t) ==
    \/ t = "approval" /\ StakeMounted /\ stakeStep = "approve"
    \/ t = "staking" /\ StakeMounted /\ stakeStep = "deposit"
    \/ t = "unstaking" /\ UnstakeMounted /\ unstakeStep = "unstaking"

\* The flow of tracker t shows its Input step.
AtInput(t) ==
    IF t = "unstaking" THEN unstakeStep = "input" ELSE stakeStep = "input"

\* C18: while the tracker driving the step shown is Submitting or
\* AwaitingConfirmation, no step of a connected session takes the flow to Input
\* or to the home view; a step from Approving or Executing to Input is taken
\* only with that tracker Failed.
C18_NoCancelInFlight ==
    /\ [][\A t \in Trackers :
              (/\ Driving(t)
               /\ address'
               /\ Lifecycle(t) \in {"Submitting", "AwaitingConfirmation"})
                  => ~(AtInput(t)' \/ currentView' = "home")]_vars
    /\ [][\A t \in Trackers :
              (Driving(t) /\ address' /\ AtInput(t)')
                  => Lifecycle(t) = "Failed"]_vars

\* C18, the case: after a failed deposit and CHANGE AMOUNT, a second deposit is
\* awaiting its confirmation in the Executing step.
C18_InFlightInExecuting ==
    /\ Driving("staking")
    /\ InFlight("staking")
    /\ Lifecycle("staking") = "AwaitingConfirmation"
    /\ attempt = 2
    /\ session.lost["staking"] > 0

\* C19: the snapshot the flows get shows, for the token balance, the share
\* balance and the allowance, the value of the last read of it that succeeded
\* (once there is one), and a share value above zero for a share balance above
\* zero: no failed or missing read puts a zero in their place.
C19_FailedReadKeepsLast ==
    balances.known =>
        /\ data.good.fey # Undefined => balances.feyBalance = data.good.fey
        /\ data.good.xfey # Undefined => balances.xFeyBalance = data.good.xfey
        /\ data.good.allowance # Undefined
               => balances.allowance = data.good.allowance
        /\ balances.xFeyBalance # 0 => balances.feyValue # 0

\* C20: the result of a phase-2 read arrives only while phase 1 holds a result
\* with a share balance above zero, and it is the share value of that balance.
C20_Phase2AfterPhase1 ==
    [][fvCache' # fvCache =>
           /\ data.known
           /\ Result(data.xfey) # 0
           /\ \A k \in DOMAIN fvCache :
                  k # data.xfey => fvCache'[k] = fvCache[k]]_vars

\* C20, the case: phase 2 has returned the share value of the share balance
\* phase 1 holds.
C20_ShareValueRead ==
    /\ address
    /\ data.known
    /\ Result(data.xfey) # 0
    /\ feyValue # Undefined
    /\ balances.feyValue = 2 * balances.xFeyBalance

\* C21: in every snapshot the flows get, feyValue is the conversion, at some
\* share price read, of the xFeyBalance of that same snapshot.
C21_SnapshotConsistent ==
    balances.known =>
        \E price \in SharePrices :
            balances.feyValue = balances.xFeyBalance * price

C23_RefreshAfterConfirmation ==
    /\ ~data.fresh ~> (data.fresh \/ ~address)
    /\ [](address => PollerRuns)

\* C23, the case: the deposit is confirmed and the snapshot shown was read
\* before the confirmation.
C23_ConfirmedNotYetRead ==
    /\ StakeMounted
    /\ isConfirmed("staking")
    /\ txState["staking"].isSuccess
    /\ ~data.fresh

\* A call to deposit or redeem the log still holds with its argument.
MovesFunds(i) ==
    /\ calls[i].t \in {"staking", "unstaking"}
    /\ calls[i].status # "done"

\* C24: every amount passed to a deposit or redeem call is an integral multiple
\* of one token (10^18 base units), whichever input action produced it.
C24_WholeTokenAmounts ==
    \A i \in DOMAIN calls : MovesFunds(i) => calls[i].amount % Unit = 0

\* The typed decimals: an integer part of at least one digit, then possibly a
\* dot and a fraction.
TypedDecimals ==
    {value \in TypedInputs : IsDecimalText(value) /\ IntPart(value) # <<>>}

TypedIntegers ==
    {value \in TypedInputs :
         value # <<>> /\ \A i \in 1..Len(value) : IsDigit(value[i])}

C27_SliderAmount ==
    [][\A tenths \in SliderTenths :
           HandlePercentageChange(tenths)
           => /\ stakeAmountWei' = PercentOf(balances.feyBalance, tenths)
              /\ stakeAmountWei' <= balances.feyBalance
              /\ (tenths = 1000 => stakeAmountWei' = balances.feyBalance)]_vars

\* C28: while the stake view is in its input step with a non-empty amount text
\* and a known snapshot, the held amount never exceeds the snapshot's
\* feyBalance and "Insufficient balance" is not shown, whatever the
\* interleaving of input actions and refreshes; a validation message is shown
\* only when the held amount is zero or the snapshot is unknown.
C28_NeverOverBalance ==
    (StakeMounted /\ stakeStep = "input")
    => /\ (stakeAmount # <<>> /\ balances.known)
          => /\ stakeAmountWei <= balances.feyBalance
             /\ StakeValidationMessage # "Insufficient balance"
       /\ StakeValidationMessage # ""
          => (stakeAmountWei = 0 \/ ~balances.known)

\* C29: an edit that leaves the amount text empty leaves a held amount of zero;
\* with an empty text no validation message is shown, and the proceed and
\* unstake buttons submit nothing.
C29_EmptyInputIsZero ==
    /\ [](/\ (StakeMounted /\ stakeStep = "input" /\ stakeAmount = <<>>)
             => stakeAmountWei = 0 /\ StakeValidationMessage = ""
          /\ (UnstakeMounted /\ unstakeStep = "input" /\ unstakeAmount = <<>>)
             => unstakeAmountWei = 0 /\ UnstakeValidationMessage = "")
    /\ [][/\ (\E value \in TypedInputs : HandleAmountChange(value))
                 /\ stakeAmount' = <<>>
             => stakeAmountWei' = 0
          /\ (\E value \in TypedInputs : UnstakeAmountChange(value))
                 /\ unstakeAmount' = <<>>
             => unstakeAmountWei' = 0
          /\ HandleProceed /\ stakeAmount = <<>> => calls' = calls
          /\ HandleUnstake /\ unstakeAmount = <<>> => calls' = calls]_vars

\* With a balance to stake, the field is empty, nothing is held, and the
\* proceed button was pressed without a call being made.
C29_EmptyRefused ==
    /\ StakeMounted
    /\ stakeStep = "input"
    /\ balances.known
    /\ balances.feyBalance >= Unit
    /\ stakeAmount = <<>>
    /\ stakeAmountWei = 0
    /\ session.refused
    /\ calls = <<>>

\* The amounts formatTokenAmount has a text of its own for: above zero and
\* below a ten-thousandth of a token (10^14 base units at 18 decimals).
VerySmall(value) == 0 < value /\ value < Unit \div 10000

\* C30 as stated: the format of a positive amount below a ten-thousandth of a
\* token is the text "<0.0001", and the format of zero is "0.0000".
C30_SmallAmountTextAsStated ==
    (StakeMounted /\ stakeStep = "input" /\ balances.known)
    => /\ VerySmall(balances.feyBalance)
          => StakeBalanceText = <<"<", "0", ".", "0", "0", "0", "1">>
       /\ VerySmall(stakeAmountWei)
          => StakeReceiveText = <<"<", "0", ".", "0", "0", "0", "1">>
       /\ balances.feyBalance = 0
          => StakeBalanceText = <<"0", ".", "0", "0", "0", "0">>

\* C30, amended: the format of a positive amount below a ten-thousandth of a
\* token is the text "< 0.0001", with a space after the sign, and the format
\* of zero is "0.0000".
C30_SmallAmountText ==
    (StakeMounted /\ stakeStep = "input" /\ balances.known)
    => /\ VerySmall(balances.feyBalance)
          => StakeBalanceText = <<"<", " ", "0", ".", "0", "0", "0", "1">>
       /\ VerySmall(stakeAmountWei)
          => StakeReceiveText = <<"<", " ", "0", ".", "0", "0", "0", "1">>
       /\ balances.feyBalance = 0
          => StakeBalanceText = <<"0", ".", "0", "0", "0", "0">>

\* The stake view shows a balance of 3 base units.
C30_DustShown ==
    /\ StakeMounted
    /\ stakeStep = "input"
    /\ balances.known
    /\ balances.feyBalance = 3
    /\ StakeBalanceText = <<"<", " ", "0", ".", "0", "0", "0", "1">>

\* C31: the stake view is at its success step only if the staking tracker is
\* Confirmed for a deposit of the held amount, submitted in this visit.
C31_SuccessMeansConfirmed ==
    (StakeMounted /\ stakeStep = "success")
    => /\ txState["staking"].isSuccess
       /\ isConfirmed("staking")
       /\ calls[txState["staking"].txHash].t = "staking"
       /\ calls[txState["staking"].txHash].amount = stakeAmountWei

IsWholeText(text) ==
    text # <<>> /\ \A i \in 1..Len(text) : IsDigit(text[i])

\* C33: after a change of the slider the text of the amount field is floored
\* to whole tokens as after typing: it has no fractional part and does not
\* denote more than the held amount.
C33_SliderTextFloored ==
    [][(\E tenths \in SliderTenths : HandlePercentageChange(tenths))
       => /\ IsWholeText(stakeAmount')
          /\ ParseNat(stakeAmount') * Unit <= stakeAmountWei']_vars

\* The approval call of attempt att has been confirmed, as far as the log
\* tells: a finished call no tracker holds any more counts as confirmed.
ApprovalConfirmedFor(att) ==
    \E j \in DOMAIN calls :
        /\ calls[j].t = "approval"
        /\ calls[j].att = att
        /\ calls[j].status \in {"confirmed", "done"}

\* C34: whenever the auto-chain submits the deposit of an attempt that went
\* through the approve step, the approval submitted by that attempt has been
\* confirmed before; a success flag an earlier attempt left on the approval
\* tracker does not trigger the deposit.
C34_DepositAfterOwnApproval ==
    [][TimerFires => ApprovalConfirmedFor(Head(timers).att)]_vars

\* The redeem submitted last: the unstaking call of the latest attempt.
NewestRedeemConfirmed ==
    \E j \in DOMAIN calls :
        /\ calls[j].t = "unstaking"
        /\ calls[j].att = attempt
        /\ calls[j].status = "confirmed"

\* C35: the unstake view moves from its unstaking step to success only after
\* the redeem submitted last is confirmed; the success flag of an earlier
\* redeem does not cause the transition.
C35_SuccessAfterOwnRedeem ==
    [][UnstakeSuccessEffect => NewestRedeemConfirmed]_vars

\* C36: whenever the unstake view computes the expected FEY amount with a held
\* amount above zero and a snapshot, the snapshot's xFeyBalance is above zero:
\* the division never has a zero divisor, in any step and under any refresh.
C36_NoDivisionByZero ==
    (UnstakeMounted /\ balances.known /\ unstakeAmountWei > 0)
    => balances.xFeyBalance > 0

\* The five lifecycle states as the flags of what a hook returns encode them.
EncodesIdle(s) ==
    /\ ~s.isLoading /\ ~s.isPending /\ ~s.isSuccess /\ ~s.isError
    /\ s.txHash = 0
EncodesSubmitting(s) ==
    /\ s.isLoading /\ ~s.isPending /\ ~s.isSuccess /\ ~s.isError
    /\ s.txHash = 0
EncodesAwaiting(s) ==
    /\ s.isLoading /\ s.isPending /\ ~s.isSuccess /\ ~s.isError
    /\ s.txHash # 0
EncodesConfirmed(s) ==
    /\ ~s.isLoading /\ ~s.isPending /\ s.isSuccess /\ ~s.isError
    /\ s.txHash # 0
EncodesFailed(s) ==
    /\ ~s.isLoading /\ ~s.isPending /\ ~s.isSuccess /\ s.isError
    /\ s.txHash = 0 /\ s.error # ""

\* C37: in every reachable state the flags of each tracker encode exactly one
\* of Idle, Submitting, AwaitingConfirmation, Confirmed and Failed; isSuccess
\* and isError are never both true.
C37_FlagsEncodeOneState ==
    \A t \in Trackers :
        /\ \/ EncodesIdle(Hook(t))
           \/ EncodesSubmitting(Hook(t))
           \/ EncodesAwaiting(Hook(t))
           \/ EncodesConfirmed(Hook(t))
           \/ EncodesFailed(Hook(t))
        /\ ~(Hook(t).isSuccess /\ Hook(t).isError)

\* C38: outside the input step the held amount is not changed by any tracker
\* event, effect or refresh: every step that leaves the flow mounted and away
\* from its input step leaves the held amount as it was.
C38_AmountFixedOutsideInput ==
    [][/\ (StakeMounted /\ StaysMounted /\ stakeStep # "input"
               /\ stakeStep' # "input")
          => stakeAmountWei' = stakeAmountWei
       /\ (UnstakeMounted /\ StaysMounted /\ unstakeStep # "input"
               /\ unstakeStep' # "input")
          => unstakeAmountWei' = unstakeAmountWei]_vars

\* The stake view has reached its success step after an approval and a chained
\* deposit, still holding the amount the proceed click saw.
C38_AmountKeptToSuccess ==
    /\ StakeMounted
    /\ stakeStep = "success"
    /\ session.confirmed >= 1
    /\ stakeAmountWei > 0
    /\ stakeAmountWei = proceedSnap.amount

=============================================================================
